---- MODULE Spec2Model ----
(***************************************************************************)
(* A model of package uiprogress (src/progress.go): the Progress           *)
(* container, its refresh loop (Listen), the Start/Stop lifecycle, the     *)
(* SIGWINCH subscription, AddBar, ChangeWidth and GetTerminalWidth.        *)
(*                                                                         *)
(* Threads: one caller that issues Start() and Stop() one after the other, *)
(* the goroutines launched by `go p.Listen()`, the goroutines that call    *)
(* AddBar, and the os/signal runtime that delivers SIGWINCH.  Every        *)
(* statement that reads or writes shared memory is a step of its own, so   *)
(* the unsynchronised accesses of p.stopChan and p.sigChan interleave.     *)
(***************************************************************************)
EXTENDS Integers, Sequences, FiniteSets, TLC

\* ------------------------------------------------------------- bounds
\* Calls of Start()/Stop() the caller issues.
MaxCalls == 4
\* Goroutines `go p.Listen()` may launch (Start is not called beyond it).
MaxLoops == 2
\* SIGWINCH deliveries by the operating system.
MaxSigs == 2
\* Goroutines that call AddBar, once each.
NumAdders == 2
\* The largest value the caller sets a bar's current to.
MaxCurrent == 2
\* `stty size` prints every row count of 0..MaxRows and every column count of
\* 0..MaxCols (and a few larger ones).
MaxRows == 1
MaxCols == 25

\* ---------------------------------------------------------- constants
\* The package-level default bar width (var Width of bar.go).
Width == 70
\* The margin GetTerminalWidth subtracts.
Margin == 20
\* Capacity of the resize channel: make(chan os.Signal, 1).
SigChanCap == 1

\* The nil channel.
NilChan == 0
\* No goroutine (the writer slot of the mutex when it is free).
NoOne == 0

\* AddBar's argument.
Totals == {100}

\* ------------------------------------------------- GetTerminalWidth
\* var SizeToken = byte(' ')
SizeToken == " "

DigitChars == <<"0", "1", "2", "3", "4", "5", "6", "7", "8", "9">>

IsDigit(c) == \E d \in 1..10 : DigitChars[d] = c

DigitVal(c) == (CHOOSE d \in 1..10 : DigitChars[d] = c) - 1

\* bytes.IndexByte: the index (from 0) of the first c in s, or -1.
IndexByte(s, c) ==
    IF \E k \in 1..Len(s) : s[k] = c
    THEN (CHOOSE k \in 1..Len(s) : s[k] = c /\ \A j \in 1..(k - 1) : s[j] # c) - 1
    ELSE -1

RECURSIVE DigitsValue(_)
DigitsValue(s) ==
    IF s = <<>> THEN 0
    ELSE 10 * DigitsValue(SubSeq(s, 1, Len(s) - 1)) + DigitVal(s[Len(s)])

\* strconv.Atoi, whose error GetTerminalWidth discards: the value, or 0
\* when s is not an optionally signed, non-empty run of digits.
Atoi(s) ==
    LET signed == s # <<>> /\ s[1] \in {"+", "-"}
        body   == IF signed THEN Tail(s) ELSE s
    IN  IF body = <<>> \/ \E k \in 1..Len(body) : ~IsDigit(body[k])
        THEN 0
        ELSE IF signed /\ s[1] = "-" THEN 0 - DigitsValue(body)
             ELSE DigitsValue(body)

\* The decimal digits of n >= 0, as `stty size` prints a number.
RECURSIVE Itoa(_)
Itoa(n) ==
    IF n < 10 THEN <<DigitChars[n + 1]>>
    ELSE Itoa(n \div 10) \o <<DigitChars[(n % 10) + 1]>>

\* The line `stty size` prints for a terminal of rows x cols.
SttySize(rows, cols) == Itoa(rows) \o <<" ">> \o Itoa(cols) \o <<"\n">>

\* What `stty size` prints on the wide terminals of the model.
TermOutputs == { SttySize(24, 80), SttySize(24, 100) }

\* ... and on a terminal narrower than the margin, or when the column field
\* is not a number.
NarrowOutputs ==
    TermOutputs \cup { SttySize(24, 10), <<"2", "4", " ", "x", "\n">> }

\* The terminal sizes GetTerminalWidth is applied to.
RowCounts == (0..MaxRows) \cup {24, 80}
ColCounts == (0..MaxCols) \cup {80, 100}

\* Fields that strconv.Atoi rejects.
BadFields ==
    { <<>>, <<"x">>, <<"8", "x">>, <<"-">>, <<"8", " ">>, <<"1", ".", "5">>,
      <<"+", "-", "3">> }

\* Outputs `stty size` never prints, but exec.Command(...).Output() may return.
OddOutputs ==
    { <<"2", "4", " ">> \o f \o <<"\n">> : f \in BadFields } \cup
    { <<>>, <<" ">>, <<"2", "4", " ">>, <<"8", "0", "\n">>, <<"2", "4", " ", "8", "0">> }

\* Every output GetTerminalWidth is applied to.
ProbeOutputs ==
    { SttySize(rows, cols) : rows \in RowCounts, cols \in ColCounts } \cup OddOutputs

\* The parse that keeps the last byte: out[idx+1:len(out)].
ParseWidth_KeepLastByte(out) ==
    LET idx == IndexByte(out, SizeToken)
    IN  [width |-> Atoi(SubSeq(out, idx + 2, Len(out))) - Margin,
         err |-> "nil", panic |-> FALSE]

\* The part of GetTerminalWidth after a successful exec: out[idx+1:len(out)-1]
\* panics when idx+1 > len(out)-1.
ParseWidth(out) ==
    LET idx == IndexByte(out, SizeToken)
        lo  == idx + 1
        hi  == Len(out) - 1
    IN  IF hi < 0 \/ lo > hi
        THEN [width |-> 0, err |-> "nil", panic |-> TRUE]
        ELSE [width |-> Atoi(SubSeq(out, lo + 1, hi)) - Margin,
              err |-> "nil", panic |-> FALSE]

\* GetTerminalWidth: exec fails (ok = FALSE), or the output is parsed.
GetTerminalWidth(ok, out) ==
    IF ~ok THEN [width |-> 0, err |-> "ErrExecFail", panic |-> FALSE]
    ELSE ParseWidth(out)

\* ------------------------------------------------------------- state
VARIABLES
    chans,     \* the channels made so far: [closed, buf], a channel is its index
    pStop,     \* p.stopChan (NilChan or a channel)
    pSig,      \* p.sigChan
    notify,    \* the channels registered with signal.Notify for SIGWINCH
    bars,      \* p.Bars: the *Bar values in slice order,
               \* [id, total, current, width]
    nbars,     \* the bars NewBar has allocated
    addOrder,  \* the ids of the bars in the order AddBar appended them
    readers,   \* the loops holding p.mtx.RLock
    writer,    \* the adder holding p.mtx.Lock, or NoOne
    loops,     \* the Listen goroutines, in launch order
    adders,    \* the goroutines calling AddBar
    cpc,       \* the caller's position
    hist,      \* the calls the caller has begun, in order
    sigs,      \* SIGWINCH deliveries so far
    crashed,   \* "none", or the panic that ended the process
    lim,       \* the bounds of the run: [calls, loops, sigs, sets], whether a
               \* terminal is narrow, and whether the loops record pend
    pWidth,    \* p.Width
    probe      \* the last call of GetTerminalWidth outside a loop: [ok, out, res]

vars == <<chans, pStop, pSig, notify, bars, nbars, addOrder, readers, writer,
          loops, adders, cpc, hist, sigs, crashed, lim, pWidth, probe>>

NewChan == [closed |-> FALSE, buf |-> 0]

\* NewBar(total): a bar of the package's default width that has not advanced.
NewBar(id, total) == [id |-> id, total |-> total, current |-> 0, width |-> Width]

\* bar.SetWidth(w), and the assignment bar.Width = w
SetWidth(bar, w) == [bar EXCEPT !.width = w]

\* No call of GetTerminalWidth outside a loop yet.
NoProbe == [ok |-> FALSE, out |-> <<>>, done |-> FALSE,
            res |-> [width |-> 0, err |-> "nil", panic |-> FALSE]]

\* The bounds of a run on wide terminals whose bars the caller never advances.
Limits(calls, nloops, nsigs) ==
    [calls |-> calls, loops |-> nloops, sigs |-> nsigs, sets |-> 0,
     narrow |-> FALSE, watch |-> FALSE]

\* An adder that has not called AddBar yet.
IdleAdder == [pc |-> "idle", bar |-> 0, total |-> 0, old |-> <<>>]

\* The state after New() and `done` calls of AddBar(100) that have returned:
\* fresh, open channels, nothing started.  limit bounds the run.
Constructed(limit, done) ==
    /\ chans = <<NewChan, NewChan>>
    /\ pStop = 1
    /\ pSig = 2
    /\ notify = {}
    /\ bars = [b \in 1..done |-> SetWidth(NewBar(b, 100), Width)]
    /\ nbars = done
    /\ addOrder = [b \in 1..done |-> b]
    /\ readers = {}
    /\ writer = NoOne
    /\ loops = <<>>
    /\ adders = [a \in 1..NumAdders |->
                   IF a <= done
                   THEN [IdleAdder EXCEPT !.pc = "done", !.bar = a, !.total = 100]
                   ELSE IdleAdder]
    /\ cpc = "idle"
    /\ hist = <<>>
    /\ sigs = 0
    /\ crashed = "none"
    /\ lim = limit
    /\ pWidth = Width
    /\ probe = NoProbe

\* New()
Init == Constructed(Limits(MaxCalls, MaxLoops, MaxSigs), 0)

Alive == crashed = "none"

LoopIds == 1..Len(loops)
AdderIds == 1..NumAdders

\* ------------------------------------------------------------- p.mtx
\* A Lock that excludes nobody (AddBar without its p.mtx.Lock()).
CanLock_NoExclusion == TRUE

\* sync.RWMutex.Lock returns when no reader and no writer holds the mutex.
CanLock == readers = {} /\ writer = NoOne

\* An RLock that a writer does not hold back.
CanRLock_NoExclusion == TRUE

\* sync.RWMutex.RLock returns when no writer holds the mutex.
CanRLock == writer = NoOne

\* ------------------------------------------------------- Start, Stop
CanCall == Alive /\ cpc = "idle" /\ Len(hist) < lim.calls

LastCall == IF hist = <<>> THEN "New" ELSE hist[Len(hist)]

\* A Listen goroutine as `go p.Listen()` creates it.  bornStop, bornSig and
\* gen record the channels p held and the call that launched it; fired and
\* pend (in the runs that watch it), whether the stop signal had fired and a
\* resize notification was pending when the iteration began; seen, the current values of the bars when
\* the tick began to render.
NewLoop ==
    [pc |-> "sel_stop", stopc |-> NilChan, sigc |-> NilChan, err |-> "nil",
     width |-> 0, n |-> 0, i |-> 0, lines |-> <<>>, fired |-> FALSE,
     pend |-> FALSE, seen |-> <<>>,
     bornStop |-> pStop, bornSig |-> pSig, gen |-> Len(hist)]

\* Start, line 140-142: if p.stopChan == nil { p.stopChan = make(chan struct{}) }
StartMakeStop ==
    /\ CanCall
    /\ Len(loops) < lim.loops
    /\ hist' = Append(hist, "Start")
    /\ IF pStop = NilChan
       THEN chans' = Append(chans, NewChan) /\ pStop' = Len(chans) + 1
       ELSE UNCHANGED <<chans, pStop>>
    /\ cpc' = "start_sig"
    /\ UNCHANGED <<pSig, notify, bars, nbars, addOrder, readers, writer, loops,
                   adders, sigs, crashed, lim,
                   pWidth, probe>>

\* Start, line 144-146: if p.sigChan == nil { p.sigChan = make(chan os.Signal, 1) }
StartMakeSig ==
    /\ Alive
    /\ cpc = "start_sig"
    /\ IF pSig = NilChan
       THEN chans' = Append(chans, NewChan) /\ pSig' = Len(chans) + 1
       ELSE UNCHANGED <<chans, pSig>>
    /\ cpc' = "start_notify"
    /\ UNCHANGED <<pStop, notify, bars, nbars, addOrder, readers, writer, loops,
                   adders, hist, sigs, crashed, lim,
                   pWidth, probe>>

\* SetNotify: signal.Notify(p.sigChan, syscall.SIGWINCH).  Nothing in the
\* package calls signal.Stop, so a channel once registered stays registered.
SetNotify ==
    /\ Alive
    /\ cpc = "start_notify"
    /\ IF pSig = NilChan
       THEN crashed' = "os/signal: Notify using nil channel" /\ UNCHANGED notify
       ELSE notify' = notify \cup {pSig} /\ UNCHANGED crashed
    /\ cpc' = "start_go"
    /\ UNCHANGED <<chans, pStop, pSig, bars, nbars, addOrder, readers, writer,
                   loops, adders, hist, sigs, lim,
                   pWidth, probe>>

\* Start, line 148: go p.Listen()
StartGo ==
    /\ Alive
    /\ cpc = "start_go"
    /\ loops' = Append(loops, NewLoop)
    /\ cpc' = "idle"
    /\ UNCHANGED <<chans, pStop, pSig, notify, bars, nbars, addOrder, readers,
                   writer, adders, hist, sigs, crashed, lim,
                   pWidth, probe>>

\* A close that lets a nil channel pass (Stop guarded by a nil check).
ClosePanic_NilIgnored(c) ==
    IF c # NilChan /\ chans[c].closed THEN "close of closed channel" ELSE "none"

\* close(c): the panic it raises, or "none".
ClosePanic(c) ==
    IF c = NilChan THEN "close of nil channel"
    ELSE IF chans[c].closed THEN "close of closed channel"
    ELSE "none"

\* The channels after close(c).
Closed(c) ==
    IF c # NilChan /\ ClosePanic(c) = "none"
    THEN [chans EXCEPT ![c].closed = TRUE]
    ELSE chans

\* Stop, line 153: close(p.stopChan)
StopCloseStop ==
    /\ CanCall
    /\ hist' = Append(hist, "Stop")
    /\ crashed' = ClosePanic(pStop)
    /\ chans' = Closed(pStop)
    /\ cpc' = "stop_nil_stop"
    /\ UNCHANGED <<pStop, pSig, notify, bars, nbars, addOrder, readers, writer,
                   loops, adders, sigs, lim,
                   pWidth, probe>>

\* Stop, line 154: p.stopChan = nil
StopNilStop ==
    /\ Alive
    /\ cpc = "stop_nil_stop"
    /\ pStop' = NilChan
    /\ cpc' = "stop_close_sig"
    /\ UNCHANGED <<chans, pSig, notify, bars, nbars, addOrder, readers, writer,
                   loops, adders, hist, sigs, crashed, lim,
                   pWidth, probe>>

\* Stop, line 155: close(p.sigChan)
StopCloseSig ==
    /\ Alive
    /\ cpc = "stop_close_sig"
    /\ crashed' = ClosePanic(pSig)
    /\ chans' = Closed(pSig)
    /\ cpc' = "stop_nil_sig"
    /\ UNCHANGED <<pStop, pSig, notify, bars, nbars, addOrder, readers, writer,
                   loops, adders, hist, sigs, lim,
                   pWidth, probe>>

\* Stop, line 156: p.sigChan = nil, and Stop returns
StopNilSig ==
    /\ Alive
    /\ cpc = "stop_nil_sig"
    /\ pSig' = NilChan
    /\ cpc' = "idle"
    /\ UNCHANGED <<chans, pStop, notify, bars, nbars, addOrder, readers, writer,
                   loops, adders, hist, sigs, crashed, lim,
                   pWidth, probe>>

Start == StartMakeStop \/ StartMakeSig \/ SetNotify \/ StartGo

Stop == StopCloseStop \/ StopNilStop \/ StopCloseSig \/ StopNilSig

\* ----------------------------------------------------------- SIGWINCH
\* The terminal is resized: os/signal sends on every registered channel
\* without blocking (select { case c <- sig: default: }).  A send on a
\* closed channel panics.
Sigwinch ==
    /\ Alive
    /\ sigs < lim.sigs
    /\ notify # {}
    /\ sigs' = sigs + 1
    /\ IF \E c \in notify : chans[c].closed
       THEN crashed' = "send on closed channel" /\ UNCHANGED chans
       ELSE /\ chans' = [c \in 1..Len(chans) |->
                           IF c \in notify /\ chans[c].buf < SigChanCap
                           THEN [chans[c] EXCEPT !.buf = @ + 1]
                           ELSE chans[c]]
            /\ UNCHANGED crashed
    /\ UNCHANGED <<pStop, pSig, notify, bars, nbars, addOrder, readers, writer,
                   loops, adders, cpc, hist, lim,
                   pWidth, probe>>

\* ------------------------------------------------------------- AddBar
\* The bar put in front of the others.
AppendBar_Prepend(old, bar) == <<bar>> \o old

\* The bar put in the place of the last one.
AppendBar_Overwrite(old, bar) ==
    IF old = <<>> THEN <<bar>> ELSE [old EXCEPT ![Len(old)] = bar]

\* append(p.Bars, bar)
AppendBar(old, bar) == Append(old, bar)

\* The bar a pointer of the slice points to, as it is now.
Deref(id) == bars[CHOOSE k \in 1..Len(bars) : bars[k].id = id]

\* AddBar, line 93-98: p.mtx.Lock(); bar := NewBar(total); bar.Width = p.Width,
\* and the read of p.Bars that append starts with: a slice of pointers.
AddBarLock(a) ==
    /\ Alive
    /\ adders[a].pc = "idle"
    /\ CanLock
    /\ writer' = a
    /\ nbars' = nbars + 1
    /\ \E total \in Totals :
         adders' = [adders EXCEPT ![a] =
                      [pc |-> "append", bar |-> nbars + 1, total |-> total,
                       old |-> [k \in 1..Len(bars) |-> bars[k].id]]]
    /\ UNCHANGED <<chans, pStop, pSig, notify, bars, addOrder, readers, loops,
                   cpc, hist, sigs, crashed, lim,
                   pWidth, probe>>

\* AddBar, line 98: p.Bars = append(p.Bars, bar)
AddBarAppend(a) ==
    /\ Alive
    /\ adders[a].pc = "append"
    /\ LET old == [k \in 1..Len(adders[a].old) |-> Deref(adders[a].old[k])]
           bar == SetWidth(NewBar(adders[a].bar, adders[a].total), pWidth)
       IN  bars' = AppendBar(old, bar)
    /\ addOrder' = Append(addOrder, adders[a].bar)
    /\ adders' = [adders EXCEPT ![a].pc = "unlock", ![a].old = <<>>]
    /\ UNCHANGED <<chans, pStop, pSig, notify, nbars, readers, writer, loops,
                   cpc, hist, sigs, crashed, lim,
                   pWidth, probe>>

\* AddBar, line 94 and 99: the deferred p.mtx.Unlock(), and return bar
AddBarUnlock(a) ==
    /\ Alive
    /\ adders[a].pc = "unlock"
    /\ writer' = NoOne
    /\ adders' = [adders EXCEPT ![a].pc = "done"]
    /\ UNCHANGED <<chans, pStop, pSig, notify, bars, nbars, addOrder, readers,
                   loops, cpc, hist, sigs, crashed, lim,
                   pWidth, probe>>

\* Every goroutine that calls AddBar.
AddBar ==
    \/ \E a \in AdderIds : AddBarLock(a)
    \/ \E a \in AdderIds : AddBarAppend(a)
    \/ \E a \in AdderIds : AddBarUnlock(a)

\* ------------------------------------------------------------- Listen
\* The stop signal has fired: the last call the caller began is a Stop, whose
\* first statement closes p.stopChan.
StopFired == LastCall = "Stop"

\* A resize notification is pending: p.sigChan holds a signal.
ResizePending == pSig # NilChan /\ chans[pSig].buf > 0

\* A loop's locals at the top of the for loop.
AtTop(r) ==
    [r EXCEPT !.pc = "sel_stop", !.stopc = NilChan, !.sigc = NilChan,
              !.err = "nil", !.width = 0, !.n = 0, !.i = 0, !.lines = <<>>,
              !.fired = FALSE, !.pend = FALSE, !.seen = <<>>]

\* select, line 122: the channel operand p.stopChan is evaluated on entry.
LoopEvalStop(l) ==
    /\ Alive
    /\ loops[l].pc = "sel_stop"
    /\ loops' = [loops EXCEPT ![l].pc = "sel_sig", ![l].stopc = pStop,
                              ![l].fired = StopFired,
                              ![l].pend = lim.watch /\ ResizePending]
    /\ UNCHANGED <<chans, pStop, pSig, notify, bars, nbars, addOrder, readers,
                   writer, adders, cpc, hist, sigs, crashed, lim,
                   pWidth, probe>>

\* select, line 124: the channel operand p.sigChan is evaluated next.
LoopEvalSig(l) ==
    /\ Alive
    /\ loops[l].pc = "sel_sig"
    /\ loops' = [loops EXCEPT ![l].pc = "choose", ![l].sigc = pSig]
    /\ UNCHANGED <<chans, pStop, pSig, notify, bars, nbars, addOrder, readers,
                   writer, adders, cpc, hist, sigs, crashed, lim,
                   pWidth, probe>>

\* A receive that proceeds on a closed channel only.
CanRecv_ClosedOnly(c) == c # NilChan /\ chans[c].closed

\* A receive from c can proceed: c holds a value or is closed (a nil channel
\* never can).
CanRecv(c) == c # NilChan /\ (chans[c].buf > 0 \/ chans[c].closed)

\* The cases of the select that can proceed.
ReadyCases(l) ==
    {br \in {"stop", "sig"} :
        CanRecv(IF br = "stop" THEN loops[l].stopc ELSE loops[l].sigc)}

\* A select that may take its default case although a receive can proceed.
SelectCases_DefaultToo(l) == ReadyCases(l) \cup {"default"}

\* Go's select: one of the cases that can proceed, chosen at random; the
\* default case only when none can.
SelectCases(l) == IF ReadyCases(l) = {} THEN {"default"} ELSE ReadyCases(l)

\* select, line 121-126: case <-p.stopChan: return; case <-p.sigChan: the
\* receive takes a buffered value if there is one; default.
LoopSelect(l) ==
    /\ Alive
    /\ loops[l].pc = "choose"
    /\ \E br \in SelectCases(l) :
         /\ loops' = [loops EXCEPT ![l] =
                        IF br = "stop" THEN [AtTop(@) EXCEPT !.pc = "stopped"]
                        ELSE IF br = "sig"
                             THEN [@ EXCEPT !.pc = "cw", !.pend = FALSE]
                        ELSE [@ EXCEPT !.pc = "sleep", !.pend = FALSE]]
         /\ chans' = IF br = "sig" /\ chans[loops[l].sigc].buf > 0
                     THEN [chans EXCEPT ![loops[l].sigc].buf = @ - 1]
                     ELSE chans
    /\ UNCHANGED <<pStop, pSig, notify, bars, nbars, addOrder, readers, writer,
                   adders, cpc, hist, sigs, crashed, lim,
                   pWidth, probe>>

\* Listen, line 127-129: time.Sleep(p.RefreshInterval); p.mtx.RLock(); the
\* range expression p.Bars is evaluated once.
LoopRLock(l) ==
    /\ Alive
    /\ loops[l].pc = "sleep"
    /\ CanRLock
    /\ readers' = readers \cup {l}
    /\ loops' = [loops EXCEPT ![l].pc = "render", ![l].n = Len(bars),
                              ![l].i = 1, ![l].lines = <<>>,
                              ![l].seen = [k \in 1..Len(bars) |-> bars[k].current]]
    /\ UNCHANGED <<chans, pStop, pSig, notify, bars, nbars, addOrder, writer,
                   adders, cpc, hist, sigs, crashed, lim,
                   pWidth, probe>>

\* A range over copies of the bars made when AddBar appended them.
RangeBar_AsAdded(k) == [bars[k] EXCEPT !.current = 0]

\* for _, bar := range p.Bars: p.Bars holds pointers, so the k-th element is
\* the bar itself, as it is now.
RangeBar(k) == bars[k]

\* The line bar.String() gives: the bar it is a line of, at its current value.
BarLine(bar) == [id |-> bar.id, current |-> bar.current]

\* Listen, line 130: fmt.Fprintln(p.lw, bar.String()) for the next bar
LoopWrite(l) ==
    /\ Alive
    /\ loops[l].pc = "render"
    /\ loops[l].i <= loops[l].n
    /\ loops' = [loops EXCEPT
                   ![l].lines = Append(@, BarLine(RangeBar(loops[l].i))),
                   ![l].i = @ + 1]
    /\ UNCHANGED <<chans, pStop, pSig, notify, bars, nbars, addOrder, readers,
                   writer, adders, cpc, hist, sigs, crashed, lim,
                   pWidth, probe>>

\* Listen, line 132-133: p.lw.Flush(); p.mtx.RUnlock()
LoopFlush(l) ==
    /\ Alive
    /\ loops[l].pc = "render"
    /\ loops[l].i > loops[l].n
    /\ readers' = readers \ {l}
    /\ loops' = [loops EXCEPT ![l] = AtTop(@)]
    /\ UNCHANGED <<chans, pStop, pSig, notify, bars, nbars, addOrder, writer,
                   adders, cpc, hist, sigs, crashed, lim,
                   pWidth, probe>>

\* -------------------------------------------------------- ChangeWidth
\* Every result one call of GetTerminalWidth can give on the terminals of the
\* run.
ProbeResults ==
    { GetTerminalWidth(FALSE, <<>>) } \cup
    { GetTerminalWidth(TRUE, out) :
        out \in IF lim.narrow THEN NarrowOutputs ELSE TermOutputs }

\* ChangeWidth, line 103: width, err := GetTerminalWidth()
CWProbe(l) ==
    /\ Alive
    /\ loops[l].pc = "cw"
    /\ \E r \in ProbeResults :
         /\ loops' = [loops EXCEPT ![l].pc = "cw_chk", ![l].err = r.err,
                                   ![l].width = r.width]
         /\ crashed' = IF r.panic THEN "slice bounds out of range" ELSE crashed
    /\ UNCHANGED <<chans, pStop, pSig, notify, bars, nbars, addOrder, readers,
                   writer, adders, cpc, hist, sigs, lim,
                   pWidth, probe>>

\* The error of GetTerminalWidth is never looked at.
ProbeFailed_Ignored(r) == FALSE

\* if err != nil
ProbeFailed(r) == r.err # "nil"

\* ChangeWidth, line 104-107: if err != nil { fmt.Println(err); return }
CWFail(l) ==
    /\ Alive
    /\ loops[l].pc = "cw_chk"
    /\ ProbeFailed(loops[l])
    /\ loops' = [loops EXCEPT ![l] = AtTop(@)]
    /\ UNCHANGED <<chans, pStop, pSig, notify, bars, nbars, addOrder, readers,
                   writer, adders, cpc, hist, sigs, crashed, lim,
                   pWidth, probe>>

\* ChangeWidth, line 109-110: p.mtx.RLock(); the range expression p.Bars
CWRLock(l) ==
    /\ Alive
    /\ loops[l].pc = "cw_chk"
    /\ ~ProbeFailed(loops[l])
    /\ CanRLock
    /\ readers' = readers \cup {l}
    /\ loops' = [loops EXCEPT ![l].pc = "cw_set", ![l].n = Len(bars),
                              ![l].i = 1]
    /\ UNCHANGED <<chans, pStop, pSig, notify, bars, nbars, addOrder, writer,
                   adders, cpc, hist, sigs, crashed, lim,
                   pWidth, probe>>

\* ChangeWidth, line 111: bar.SetWidth(width) for the next bar
CWSet(l) ==
    /\ Alive
    /\ loops[l].pc = "cw_set"
    /\ loops[l].i <= loops[l].n
    /\ bars' = [bars EXCEPT ![loops[l].i] = SetWidth(@, loops[l].width)]
    /\ loops' = [loops EXCEPT ![l].i = @ + 1]
    /\ UNCHANGED <<chans, pStop, pSig, notify, nbars, addOrder, readers, writer,
                   adders, cpc, hist, sigs, crashed, lim,
                   pWidth, probe>>

\* ChangeWidth, line 113-114: p.lw.Flush(); p.mtx.RUnlock(), and return
CWFlush(l) ==
    /\ Alive
    /\ loops[l].pc = "cw_set"
    /\ loops[l].i > loops[l].n
    /\ readers' = readers \ {l}
    /\ loops' = [loops EXCEPT ![l] = AtTop(@)]
    /\ UNCHANGED <<chans, pStop, pSig, notify, bars, nbars, addOrder, writer,
                   adders, cpc, hist, sigs, crashed, lim,
                   pWidth, probe>>

\* ChangeWidth, as every loop calls it.
ChangeWidth ==
    \/ \E l \in LoopIds : CWProbe(l)
    \/ \E l \in LoopIds : CWFail(l)
    \/ \E l \in LoopIds : CWRLock(l)
    \/ \E l \in LoopIds : CWSet(l)
    \/ \E l \in LoopIds : CWFlush(l)

\* Every Listen goroutine.
Listen ==
    \/ \E l \in LoopIds : LoopEvalStop(l)
    \/ \E l \in LoopIds : LoopEvalSig(l)
    \/ \E l \in LoopIds : LoopSelect(l)
    \/ \E l \in LoopIds : LoopRLock(l)
    \/ \E l \in LoopIds : LoopWrite(l)
    \/ \E l \in LoopIds : LoopFlush(l)
    \/ ChangeWidth

\* ------------------------------------------------------ specification
Next ==
    \/ Start
    \/ Stop
    \/ Sigwinch
    \/ AddBar
    \/ Listen

Spec == Init /\ [][Next]_vars

\* The bars: Start (never Stop), AddBar from NumAdders goroutines, the loops
\* and the resize signal.
NextBars ==
    \/ Start
    \/ Sigwinch
    \/ AddBar
    \/ Listen

SpecBars == Init /\ [][NextBars]_vars

\* The bars again, with one call, one loop and one signal fewer.
InitFew == Constructed(Limits(MaxCalls - 1, MaxLoops - 1, MaxSigs - 1), 0)

SpecFew == InitFew /\ [][NextBars]_vars

\* The lifecycle: any sequence of Start() and Stop() on a Progress that holds
\* one bar, the loops and the resize signal.
InitLife == Constructed(Limits(MaxCalls, MaxLoops, MaxSigs), 1)

NextLife ==
    \/ Start
    \/ Stop
    \/ Sigwinch
    \/ Listen

SpecLife == InitLife /\ [][NextLife]_vars

\* The lifecycle with one call, one loop and one signal fewer.
InitShort == Constructed(Limits(MaxCalls - 1, MaxLoops - 1, MaxSigs - 1), 1)

SpecShort == InitShort /\ [][NextLife]_vars

\* The same, the loop recording whether a resize notification was pending
\* when its iteration began.
InitWatch ==
    Constructed([Limits(MaxCalls - 1, MaxLoops - 1, MaxSigs - 1)
                    EXCEPT !.watch = TRUE], 1)

SpecWatch == InitWatch /\ [][NextLife]_vars

\* The lifecycle when the caller alternates strictly: Start(), Stop(),
\* Start(), Stop(), ...
\* A call begins only in its turn.
AltStart ==
    \/ LastCall # "Start" /\ StartMakeStop
    \/ StartMakeSig
    \/ SetNotify
    \/ StartGo

AltStop ==
    \/ LastCall = "Start" /\ StopCloseStop
    \/ StopNilStop
    \/ StopCloseSig
    \/ StopNilSig

NextAlt ==
    \/ AltStart
    \/ AltStop
    \/ Sigwinch
    \/ Listen

InitAlt == Constructed(Limits(MaxCalls + 1, MaxLoops + 1, 1), 1)

SpecAlt == InitAlt /\ [][NextAlt]_vars

\* Start() once, then Stop() once.  The Go scheduler runs every runnable
\* goroutine again and again: weak fairness of the caller and of each loop.
InitOnce == Constructed(Limits(2, 1, 1), 1)

FairSpecOnce ==
    /\ InitOnce
    /\ [][NextAlt]_vars
    /\ WF_vars(AltStart \/ AltStop)
    /\ WF_vars(Listen)

\* Start() once and never Stop(), while the terminal is resized several times.
\* The Go scheduler runs the caller and the loop again and again.
InitResize == Constructed(Limits(1, 1, MaxSigs), 2)

NextResize ==
    \/ Start
    \/ Sigwinch
    \/ Listen

FairSpecResize ==
    /\ InitResize
    /\ [][NextResize]_vars
    /\ WF_vars(Start)
    /\ WF_vars(Listen)

\* The same on terminals that may be narrow.
InitNarrow ==
    Constructed([Limits(1, 1, MaxSigs) EXCEPT !.narrow = TRUE], 2)

SpecNarrow == InitNarrow /\ [][NextResize]_vars

\* The caller advances a bar AddBar returned to it: a write of the bar's
\* current value, to a larger value, outside p.mtx.
SetCurrent ==
    /\ Alive
    /\ \E k \in 1..Len(bars), v \in 1..lim.sets :
         /\ v > bars[k].current
         /\ bars' = [bars EXCEPT ![k].current = v]
    /\ UNCHANGED <<chans, pStop, pSig, notify, nbars, addOrder, readers, writer,
                   loops, adders, cpc, hist, sigs, crashed, lim, pWidth, probe>>

\* Start() once on a Progress of two bars that the caller advances while the
\* loop renders and resizes.
InitSet == Constructed([Limits(1, 1, 1) EXCEPT !.sets = MaxCurrent], 2)

NextSet ==
    \/ Start
    \/ Sigwinch
    \/ Listen
    \/ SetCurrent

SpecSet == InitSet /\ [][NextSet]_vars

\* Start() once, while bars are added, advanced and resized.
InitFrame == Constructed([Limits(1, 1, 1) EXCEPT !.sets = 1], 0)

NextFrame ==
    \/ Start
    \/ Sigwinch
    \/ AddBar
    \/ Listen
    \/ SetCurrent

SpecFrame == InitFrame /\ [][NextFrame]_vars

\* GetTerminalWidth on its own, called again and again: exec fails, or
\* `stty size` succeeds and prints any of ProbeOutputs.
Probe ==
    /\ Alive
    /\ \E ok \in BOOLEAN, out \in ProbeOutputs :
         /\ ~ok => out = <<>>
         /\ probe' = [ok |-> ok, out |-> out, done |-> TRUE,
                      res |-> GetTerminalWidth(ok, out)]
         /\ crashed' = IF GetTerminalWidth(ok, out).panic
                       THEN "slice bounds out of range" ELSE crashed
    /\ UNCHANGED <<chans, pStop, pSig, notify, bars, nbars, addOrder, readers,
                   writer, loops, adders, cpc, hist, sigs, lim, pWidth>>

NextProbe == Probe

SpecProbe == Init /\ [][NextProbe]_vars

\* ------------------------------------------------------------- claims
LoopStopped(l) == loops[l].pc = "stopped"

CallerReturned == cpc = "idle"

\* C1: after Start() once and then Stop() once, the loop launched by Start()
\* eventually returns (or the process has ended), under fair scheduling, and a
\* loop that has returned takes no further step: it writes no line, flushes
\* nothing and holds no lock.
C1_LoopReturnsAfterStop ==
    /\ (hist = <<"Start", "Stop">> /\ CallerReturned)
          ~> (~Alive \/ \A l \in LoopIds : LoopStopped(l))
    /\ [][\A l \in LoopIds :
            LoopStopped(l) => (loops'[l] = loops[l] /\ l \notin readers')]_vars

\* C2: at most one Listen goroutine of the Progress has not returned.
C2_AtMostOneLoop ==
    Cardinality({l \in LoopIds : ~LoopStopped(l)}) <= 1

\* C7: an iteration of the loop that begins when Stop() has already closed the
\* stop channel returns: it neither calls ChangeWidth nor sleeps and renders.
C7_StopHasPriority ==
    \A l \in LoopIds :
        loops[l].fired => loops[l].pc \in {"sel_sig", "choose"}

\* C8: a resize signal that arrives when Stop() has returned (the caller is
\* between calls) is never sent on a channel that Stop() closed.
C8_NoSendOnClosed == ~(CallerReturned /\ crashed = "send on closed channel")

\* C9: a Stop() that begins when the last call was a Stop() too panics in its
\* first statement, close(p.stopChan), on the nil channel the first left.
C9_SecondStopCrashes ==
    [][(CallerReturned /\ LastCall = "Stop" /\ hist' = Append(hist, "Stop"))
          => crashed' = "close of nil channel"]_vars

\* A second Stop() in a row has panicked.
C9_Witness ==
    /\ Len(hist) >= 2
    /\ hist[Len(hist) - 1] = "Stop"
    /\ hist[Len(hist)] = "Stop"
    /\ crashed = "close of nil channel"

\* The loop l was launched by a Start() that followed a Stop().
BornAfterStop(l) == loops[l].gen >= 2 /\ hist[loops[l].gen - 1] = "Stop"

\* C10: when Start() and Stop() alternate, a Start() after a Stop() installs
\* channels that are new and open, the loop it launches has only these (or no
\* channel yet) as operands of its select, its channel is subscribed, and no
\* Stop() closes a closed channel.
C10_FreshChannelsOnly ==
    /\ (cpc \in {"start_notify", "start_go"} /\ Len(hist) >= 2) =>
          /\ pStop # NilChan /\ ~chans[pStop].closed
          /\ pSig # NilChan /\ ~chans[pSig].closed
          /\ \A l \in LoopIds :
                pStop # loops[l].bornStop /\ pSig # loops[l].bornSig
    /\ \A l \in LoopIds :
          BornAfterStop(l) =>
             /\ loops[l].stopc \in {NilChan, loops[l].bornStop}
             /\ loops[l].sigc \in {NilChan, loops[l].bornSig}
             /\ loops[l].bornSig \in notify
    /\ crashed # "close of closed channel"

\* The lines of a finished tick.
TickDone(l) == loops[l].pc = "render" /\ loops[l].i > loops[l].n

\* C3: a render tick writes the lines of the bars of the collection, one each,
\* in the order AddBar appended them: while it writes, its lines are the first
\* bars in that order, and when it is done they are all of them.
C3_RenderInAddOrder ==
    \A l \in LoopIds :
        loops[l].pc = "render" =>
           /\ [k \in 1..Len(loops[l].lines) |-> loops[l].lines[k].id]
                 = SubSeq(addOrder, 1, loops[l].i - 1)
           /\ loops[l].n = Len(bars)
           /\ addOrder = [k \in 1..Len(bars) |-> bars[k].id]

\* A tick has written the lines of all NumAdders bars.
C3_Witness ==
    \E l \in LoopIds : TickDone(l) /\ Len(loops[l].lines) = NumAdders

\* The adder a has appended its bar.
Appended(a) == adders[a].pc \in {"unlock", "done"}

\* C4: the collection holds exactly the bars of the AddBar calls that have
\* appended, each once; so NumAdders bars once all calls have returned.
C4_NoLostOrDuplicatedBar ==
    /\ Len(bars) = Cardinality({a \in AdderIds : Appended(a)})
    /\ \A a \in AdderIds :
          Appended(a) =>
             Cardinality({k \in 1..Len(bars) : bars[k].id = adders[a].bar}) = 1

\* All AddBar calls have returned and a loop has rendered their bars.
C4_Witness ==
    /\ \A a \in AdderIds : adders[a].pc = "done"
    /\ Len(bars) = NumAdders
    /\ \E l \in LoopIds : TickDone(l)

\* C5: when a successful ChangeWidth is about to release its lock, every bar
\* has the width it probed; and when no ChangeWidth is at work, the bars do
\* not carry two different probed widths.
C5_OneWidthForAllBars ==
    /\ \A l \in LoopIds :
          (loops[l].pc = "cw_set" /\ loops[l].i > loops[l].n) =>
             \A k \in 1..Len(bars) : bars[k].width = loops[l].width
    /\ (\A l \in LoopIds : loops[l].pc # "cw_set") =>
          Cardinality({bars[k].width : k \in 1..Len(bars)} \ {Width}) <= 1

\* C6: a ChangeWidth whose probe failed changes no bar in either of its steps,
\* does not end the process, and hands control back to the loop, which stays
\* running.
C6_FailedProbeChangesNothing ==
    [][\A l \in LoopIds :
          /\ (loops[l].pc = "cw" /\ loops'[l].pc = "cw_chk"
                /\ loops'[l].err = "ErrExecFail")
                => (bars' = bars /\ crashed' = "none")
          /\ (loops[l].pc = "cw_chk" /\ loops[l].err = "ErrExecFail"
                /\ loops'[l] # loops[l])
                => (bars' = bars /\ crashed' = "none"
                      /\ loops'[l].pc = "sel_stop")]_vars

\* A probe has failed while the collection holds bars.
C6_Witness ==
    \E l \in LoopIds :
        loops[l].pc = "cw_chk" /\ loops[l].err = "ErrExecFail" /\ Len(bars) >= 1

\* The exec of the last call succeeded and printed out.
Probed(out) == probe.done /\ probe.ok /\ probe.out = out

\* out has a delimiter with at least the final byte after it.
HasField(out) ==
    \E k \in 1..(Len(out) - 1) : out[k] = SizeToken

\* The bytes of out between the first delimiter and the final byte.
FieldOf(out) ==
    LET k == CHOOSE k \in 1..Len(out) :
                 out[k] = SizeToken /\ \A j \in 1..(k - 1) : out[j] # SizeToken
    IN  [j \in 1..(Len(out) - 1 - k) |-> out[k + j]]

\* s is a decimal integer: an optional sign, then one digit or more.
IsInteger(s) ==
    \E from \in 1..2 :
        /\ from = 2 => (Len(s) >= 1 /\ s[1] \in {"+", "-"})
        /\ Len(s) >= from
        /\ \A k \in from..Len(s) : IsDigit(s[k])

\* C11: when the query succeeds and the field after the delimiter is not an
\* integer, GetTerminalWidth returns the width 0 and no error.
C11_BadFieldGivesZero ==
    (probe.done /\ probe.ok /\ HasField(probe.out)
        /\ ~IsInteger(FieldOf(probe.out)))
       => probe.res = [width |-> 0, err |-> "nil", panic |-> FALSE]

\* C12: on the output <rows><delimiter><cols><newline>, for every rows and cols
\* of the range, GetTerminalWidth returns cols - 20 and no error: "80 24\n"
\* gives 4.
C12_ColsMinusMargin ==
    \A rows \in RowCounts, cols \in ColCounts :
        Probed(SttySize(rows, cols))
           => probe.res = [width |-> cols - 20, err |-> "nil", panic |-> FALSE]

\* "80 24\n" has given 4.
C12_Witness ==
    /\ Probed(<<"8", "0", " ", "2", "4", "\n">>)
    /\ probe.res.width = 4
    /\ probe.res.err = "nil"

\* C13: a tick whose rendering starts after the caller wrote a bar's current
\* value writes that value or a later one, never an older one: every line of
\* the tick is at least as far as its bar was when the tick began to render.
C13_TickShowsLatestCurrent ==
    \A l \in LoopIds :
        loops[l].pc = "render" =>
           \A k \in 1..Len(loops[l].lines) :
               /\ loops[l].lines[k].current >= loops[l].seen[k]
               /\ loops[l].lines[k].current <= bars[k].current

\* A tick that began after the caller advanced a bar has written its line.
C13_Witness ==
    \E l \in LoopIds :
        /\ TickDone(l)
        /\ \E k \in 1..Len(loops[l].lines) :
               loops[l].seen[k] >= 1 /\ loops[l].lines[k].current >= 1

\* The loop l leaves its select by the step.
Selects(l) == loops[l].pc = "choose" /\ loops'[l] # loops[l]

\* C14: an iteration that began with a resize notification pending and the
\* stop signal not fired calls ChangeWidth(): its select takes neither the
\* sleep-and-render branch nor any other.
C14_PendingResizeIsHandled ==
    [][\A l \in LoopIds :
          (Selects(l) /\ loops[l].pend /\ ~loops[l].fired)
             => loops'[l].pc = "cw"]_vars

\* C14, amended: a select that runs while the resize channel it evaluated
\* holds a notification and the stop channel it evaluated is not closed takes
\* the resize branch and calls ChangeWidth().
C14_ReadyResizeIsHandled ==
    [][\A l \in LoopIds :
          (Selects(l) /\ loops[l].sigc # NilChan
              /\ chans[loops[l].sigc].buf > 0 /\ ~CanRecv(loops[l].stopc))
             => (loops'[l].pc = "cw" /\ chans'[loops[l].sigc].buf = 0)]_vars

\* A loop has received a notification from its open resize channel, with no
\* Stop() begun, and is about to probe the terminal.
C14_Witness ==
    \E l \in LoopIds :
        /\ loops[l].pc = "cw"
        /\ ~chans[loops[l].sigc].closed
        /\ sigs >= 1
        /\ ~StopFired

\* C15: while the Progress is started and never stopped, every resize
\* notification delivered is followed by a receive of the loop that leaves the
\* channel empty and calls ChangeWidth(), and the call runs: it probes the
\* terminal.  A delivery leaves the channel holding a notification, whether it
\* was buffered or dropped because one was buffered already.
C15_ResizeEventuallyHandled ==
    /\ ResizePending
          ~> (~ResizePending /\ \E l \in LoopIds : loops[l].pc = "cw")
    /\ (\E l \in LoopIds : loops[l].pc = "cw")
          ~> (\E l \in LoopIds : loops[l].pc = "cw_chk")

\* After several notifications, a ChangeWidth() has probed the terminal and
\* none is pending.
C15_Witness ==
    /\ sigs >= 2
    /\ ~ResizePending
    /\ \E l \in LoopIds : loops[l].pc = "cw_chk"

\* The adder a is in AddBar's write-locked section.
InWriteSection(a) == adders[a].pc \in {"append", "unlock"}

\* The loop l is iterating over the bars, in a tick or in ChangeWidth.
InReadSection(l) == loops[l].pc \in {"render", "cw_set"}

\* C16: AddBar's append never overlaps the iteration of a render tick or of
\* ChangeWidth: no adder is in its write-locked section while a loop iterates,
\* no two adders are, the adder in it holds the write lock, and a loop that
\* iterates (reads the length and the elements of the collection) holds the
\* read lock.
C16_AppendExcludesIteration ==
    /\ \A a \in AdderIds, l \in LoopIds : ~(InWriteSection(a) /\ InReadSection(l))
    /\ \A a, b \in AdderIds : (InWriteSection(a) /\ InWriteSection(b)) => a = b
    /\ \A a \in AdderIds : InWriteSection(a) <=> writer = a
    /\ \A l \in LoopIds : InReadSection(l) <=> l \in readers

\* An AddBar is about to append to a collection that holds a bar, while a
\* loop waits for the read lock to render.
C16_Witness ==
    \E a \in AdderIds, l \in LoopIds :
        adders[a].pc = "append" /\ loops[l].pc = "sleep" /\ Len(bars) >= 1

\* No AddBar and no ChangeWidth is at work, and no resize is pending.
Quiescent ==
    /\ \A a \in AdderIds : adders[a].pc \in {"idle", "done"}
    /\ \A l \in LoopIds : loops[l].pc \notin {"cw", "cw_chk", "cw_set"}
    /\ ~ResizePending

\* C17: a bar that AddBar creates after a ChangeWidth() set the width w has
\* the width w too: in every quiescent state all bars have the same width.
C17_NewBarHasResizedWidth ==
    Quiescent => \A j, k \in 1..Len(bars) : bars[j].width = bars[k].width

\* C18: the loop calls ChangeWidth() only for a notification the operating
\* system delivered: whenever its select takes the resize branch, the resize
\* channel held a notification, however Stop() interleaves with the select.
C18_ResizeOnlyOnNotification ==
    [][\A l \in LoopIds :
          (Selects(l) /\ loops'[l].pc = "cw")
             => chans[loops[l].sigc].buf > 0]_vars

\* C19: the width of every bar is non-negative in every reachable state,
\* whatever the terminal's column count and the probe's output.
C19_WidthNeverNegative ==
    \A k \in 1..Len(bars) : bars[k].width >= 0

\* The loop l takes a step of ChangeWidth.
ChangeWidthSteps(l) ==
    loops[l].pc \in {"cw", "cw_chk", "cw_set"} /\ loops'[l] # loops[l]

\* The adder a takes a step of AddBar.
AddBarSteps(a) == adders'[a] # adders[a]

\* p.Width and the stop and resize channels are as they were.
SameContainer ==
    pWidth' = pWidth /\ pStop' = pStop /\ pSig' = pSig /\ chans' = chans

\* C20: a step of ChangeWidth changes nothing but widths of bars: the
\* collection keeps its bars in their order with their totals and current
\* values, and p.Width and the channels stay.  A step of AddBar changes
\* nothing but the tail of the collection: the bars added before keep their
\* position, width, total and current value, and at most one bar is added.
C20_FrameOfResizeAndAdd ==
    [][/\ \A l \in LoopIds :
             ChangeWidthSteps(l) =>
                /\ Len(bars') = Len(bars)
                /\ \A k \in 1..Len(bars) :
                      bars'[k] = [bars[k] EXCEPT !.width = bars'[k].width]
                /\ addOrder' = addOrder
                /\ SameContainer
       /\ \A a \in AdderIds :
             AddBarSteps(a) =>
                /\ Len(bars') \in {Len(bars), Len(bars) + 1}
                /\ \A k \in 1..Len(bars) : bars'[k] = bars[k]
                /\ SameContainer]_vars

\* A bar that was resized and advanced has kept both while a second bar was
\* added behind it.
C20_Witness ==
    /\ Len(bars) = 2
    /\ bars[1].width # Width
    /\ bars[1].current = 1
    /\ bars[2].width = Width
    /\ \A a \in AdderIds : adders[a].pc \in {"idle", "done"}

====
